---- MODULE Spec2Model ----
(***************************************************************************)
(* Model of the footballManagerPro roster service.                         *)
(*                                                                         *)
(* The service keeps one module-level Python list `players` of Player      *)
(* objects and exposes HTTP handlers that create, transfer, revalue and    *)
(* delete players by list index.  Three deployments of the same handlers   *)
(* exist: backend/app (main.py + models.py), backend/main.py and           *)
(* backend/vercel_app.py.  One request is handled per step.                *)
(*                                                                         *)
(* Representation.                                                         *)
(*  - A Python str is a sequence of atoms.  The atoms " " and "\t" are     *)
(*    single whitespace characters; any other atom is a run of one or more *)
(*    non-whitespace characters ("Manchester City" is                      *)
(*    <<"Manchester", " ", "City">>).  len(s) = 0 iff the sequence is      *)
(*    empty, and str.strip() removes leading and trailing whitespace atoms.*)
(*  - A float is an integer number of millions; the values used are far    *)
(*    inside the range where float arithmetic on integers is exact.        *)
(*  - A Player object is a record with its four attributes and `oid`, the  *)
(*    identity of the Python object (Player defines no __eq__, so two      *)
(*    players with equal attributes are still different elements).         *)
(*  - Python list indices are 0-based, TLA+ sequences 1-based: the element *)
(*    players[i] of the code is players[i + 1] here.                       *)
(*  - An exception raised by a method is the `err` field of the record the *)
(*    operator returns; `p` is the object as the method left it, so a      *)
(*    mutation made before a raise persists as it does in Python.          *)
(***************************************************************************)
EXTENDS Integers, Sequences, FiniteSets, TLC

VARIABLES
    variant,    \* which deployment is running: "app", "main" or "vercel"
    players,    \* the module-level list `players`
    request,    \* the request handled by the last step
    response,   \* the HTTP response to it: status, detail, body
    nextOid,    \* identity of the next Player object constructed
    everHeld,   \* history: every list index some player has held so far
    ops,        \* number of requests handled
    tasks,      \* per client: the handler coroutine of its request in flight
    running     \* the client whose coroutine holds the event loop, 0 if none

vars == <<variant, players, request, response, nextOid, everHeld, ops,
          tasks, running>>

\* Number of requests handled in one run of the model.
MaxOps == 2

\* Number of clients that may have a request in flight at the same time.
MaxClients == 2

----------------------------------------------------------------------------
(* Strings *)

IsSpace(c) == c \in {" ", "\t"}

RECURSIVE lstrip(_)
lstrip(s) == IF s # <<>> /\ IsSpace(Head(s)) THEN lstrip(Tail(s)) ELSE s

RECURSIVE rstrip(_)
rstrip(s) ==
    IF s # <<>> /\ IsSpace(s[Len(s)]) THEN rstrip(SubSeq(s, 1, Len(s) - 1)) ELSE s

\* str.strip()
strip(s) == rstrip(lstrip(s))

\* Python truthiness of a str: `not s` is s = ""
Falsy(s) == s = <<>>

----------------------------------------------------------------------------
(* Python list operations on `players` *)

\* len(players)
len(list) == Len(list)

\* players[i], with Python's negative indices counting from the end
At(list, i) == IF i < 0 THEN list[Len(list) + i + 1] ELSE list[i + 1]

\* The 1-based position of players[i]
Pos(list, i) == IF i < 0 THEN Len(list) + i + 1 ELSE i + 1

\* players[i] = p for a mutation made in place on the object at index i.
\* The mutant takes the index as 1-based and mutates players[i - 1].
Store_off_by_one(list, i, p) == [list EXCEPT ![Pos(list, i - 1)] = p]

Store(list, i, p) == [list EXCEPT ![Pos(list, i)] = p]

\* players.append(p), with the mutant that inserts at the front instead
append_front(list, p) == <<p>> \o list

append(list, p) == Append(list, p)

\* players.pop(i): the list without the element at index i, and that element.
\* The mutant ignores the index and pops the last element, as players.pop() does.
pop_last(list, i) ==
    [list |-> SubSeq(list, 1, Len(list) - 1), item |-> list[Len(list)]]

pop(list, i) ==
    [list |-> SubSeq(list, 1, Pos(list, i) - 1)
                 \o SubSeq(list, Pos(list, i) + 1, Len(list)),
     item |-> At(list, i)]

\* `0 <= player_id < len(players)`, the bounds check of the by-index handlers.
\* The mutant drops the lower bound, which lets Python's negative indices in.
InRange_no_lower(player_id, list) == player_id < len(list)

InRange(player_id, list) == 0 <= player_id /\ player_id < len(list)

----------------------------------------------------------------------------
(* pydantic request model *)

VALID_POSITIONS == {<<"GK">>, <<"DF">>, <<"CM">>, <<"FW">>}

\* PlayerBase: name and club min_length=1, position a PositionType literal,
\* value ge=0.  TRUE iff the body validates; FastAPI answers 422 otherwise.
PlayerBase(name, position, club, value) ==
    /\ Len(name) >= 1
    /\ position \in VALID_POSITIONS
    /\ Len(club) >= 1
    /\ value >= 0

----------------------------------------------------------------------------
(* class Player *)

\* What a constructor that raised leaves behind: no object.
None == [oid |-> -1, name |-> <<>>, position |-> <<>>, club |-> <<>>, value |-> 0]

Return(p) == [p |-> p, err |-> ""]

Raise(p, msg) == [p |-> p, err |-> msg]

\* Player.__init__ (the same text in backend/main.py:17-31 and
\* backend/vercel_app.py:34-48)
Player(oid, name, position, club, value) ==
    IF Falsy(name) \/ Falsy(position) \/ Falsy(club)
    THEN Raise(None, "Name, position, and club cannot be empty")
    ELSE IF value < 0
    THEN Raise(None, "Player value cannot be negative")
    ELSE IF position \notin VALID_POSITIONS
    THEN Raise(None, "Invalid position")
    ELSE Return([oid |-> oid,
                 name |-> strip(name),
                 position |-> strip(position),
                 club |-> strip(club),
                 value |-> value])

\* Player.to_dict
to_dict(p) ==
    [name |-> p.name, position |-> p.position, club |-> p.club, value |-> p.value]

\* abs()
abs(x) == IF x < 0 THEN -x ELSE x

\* Player.inOrDecrisePlayerValue, with the mutant that forgets abs(), so that
\* a negative amount is subtracted as it is
inOrDecrisePlayerValue_no_abs(p, amount) ==
    IF amount < 0
    THEN Return([p EXCEPT !.value = p.value - amount])
    ELSE Return([p EXCEPT !.value = p.value + amount])

inOrDecrisePlayerValue(p, amount) ==
    IF amount < 0
    THEN Return([p EXCEPT !.value = p.value - abs(amount)])
    ELSE Return([p EXCEPT !.value = p.value + amount])

\* Player.setNewPlayerValue.  The ValueError raised for a negative value is
\* caught by the method's own `except (TypeError, ValueError)` and raised
\* again with the format message.
setNewPlayerValue(p, newValue) ==
    IF newValue < 0
    THEN Raise(p, "Invalid value format. Must be a number")
    ELSE Return([p EXCEPT !.value = newValue])

\* `"Player value cannot be negative" in str(e)`
MentionsNegativeValue(msg) == msg = "Player value cannot be negative"

\* Player.setNewClub of backend/app/models.py, which sets the value through
\* setNewPlayerValue.  The mutant assigns the club before it checks the fee.
setNewClub_club_first(p, newClub, transferMoney) ==
    IF Falsy(newClub) \/ Falsy(strip(newClub))
    THEN Raise(p, "New club cannot be empty")
    ELSE LET q == [p EXCEPT !.club = strip(newClub)] IN
         IF transferMoney < 0
         THEN Raise(q, "Invalid transfer money format. Must be a number")
         ELSE setNewPlayerValue(q, transferMoney)

setNewClub(p, newClub, transferMoney) ==
    IF Falsy(newClub) \/ Falsy(strip(newClub))
    THEN Raise(p, "New club cannot be empty")
    ELSE IF transferMoney < 0
    THEN Raise(p, "Invalid transfer money format. Must be a number")
    ELSE LET q == [p EXCEPT !.club = strip(newClub)]
             r == setNewPlayerValue(q, transferMoney)
         IN  IF r.err = "" THEN Return(r.p)
             ELSE IF MentionsNegativeValue(r.err) THEN r
             ELSE Raise(r.p, "Invalid transfer money format. Must be a number")

\* Player.setNewClub of backend/main.py (the same text in
\* backend/vercel_app.py:70-84), which assigns the value directly.  The mutant
\* stores the club as given, without strip().
main_setNewClub_no_strip(p, newClub, transferMoney) ==
    IF Falsy(newClub) \/ Falsy(strip(newClub))
    THEN Raise(p, "New club cannot be empty")
    ELSE IF transferMoney < 0
    THEN Raise(p, "Invalid transfer money format. Must be a number")
    ELSE Return([p EXCEPT !.club = newClub, !.value = transferMoney])

main_setNewClub(p, newClub, transferMoney) ==
    IF Falsy(newClub) \/ Falsy(strip(newClub))
    THEN Raise(p, "New club cannot be empty")
    ELSE IF transferMoney < 0
    THEN Raise(p, "Invalid transfer money format. Must be a number")
    ELSE Return([p EXCEPT !.club = strip(newClub), !.value = transferMoney])

----------------------------------------------------------------------------
(* Requests *)

\* Names and clubs a client may send: empty, whitespace only, padded.
NameInputs == {<<>>, <<" ">>, <<"\t", "Lamine", " ", "Yamal", " ">>}

ClubInputs == {<<>>, <<" ", "\t">>, <<" ", "Real", " ", "Madrid", "\t">>}

\* Two valid positions and the terminal version's "MC", which is not one.
PositionInputs == {<<"GK">>, <<"DF">>, <<"MC">>}

ValueInputs == {-1, 0, 100}

AmountInputs == {-200, -5, 0, 5}

FeeInputs == {-1, 0, 200}

\* Path parameter player_id: every index of the list, one below, one above.
IdInputs == -1 .. Len(players)

Variants == {"app", "main", "vercel"}

----------------------------------------------------------------------------
(* State *)

\* The module-level `players` list of backend/app/models.py (the same five
\* players in backend/main.py:70-76 and backend/vercel_app.py:87-93)
InitialPlayers ==
    << Player(0, <<"Erling", " ", "Haaland">>, <<"FW">>,
              <<"Manchester", " ", "City">>, 180).p,
       Player(1, <<"Jude", " ", "Bellingham">>, <<"CM">>,
              <<"Real", " ", "Madrid">>, 150).p,
       Player(2, <<"Kylian", " ", "Mbappe">>, <<"FW">>, <<"PSG">>, 180).p,
       Player(3, <<"Vinicius", " ", "Jr">>, <<"FW">>,
              <<"Real", " ", "Madrid">>, 150).p,
       Player(4, <<"Phil", " ", "Foden">>, <<"CM">>,
              <<"Manchester", " ", "City">>, 130).p >>

\* The indices 0 .. len(list) - 1 that the elements of a list hold
Indices(list) == 0 .. (Len(list) - 1)

\* Clients of the server; each sends at most one request while another
\* client's request may be in flight.
Clients == 1 .. MaxClients

\* A client with no request in flight.  `aimed`, `seen` and `acted` are
\* history: the identity of the player at the request's index when the request
\* arrived, when its bounds check ran and when it acted; -1 is "no player".
Idle ==
    [pc |-> "idle", req |-> [op |-> "none"], aimed |-> -1, seen |-> -1,
     acted |-> -1]

Init ==
    /\ tasks = [c \in Clients |-> Idle]
    /\ running = 0
    /\ variant \in Variants
    /\ players = InitialPlayers
    /\ request = [op |-> "none"]
    /\ response = [status |-> 0, detail |-> "", body |-> <<>>]
    /\ nextOid = Len(InitialPlayers)
    /\ everHeld = Indices(InitialPlayers)
    /\ ops = 0

\* The handler returns or raises HTTPException: one response per request.
Respond(req, status, detail, body) ==
    /\ request' = req
    /\ response' = [status |-> status, detail |-> detail, body |-> body]
    /\ ops' = ops + 1
    /\ UNCHANGED <<variant, tasks, running>>

\* The list after the step, with the history of held indices kept up
SetPlayers(list) ==
    /\ players' = list
    /\ everHeld' = everHeld \cup Indices(list)

----------------------------------------------------------------------------
(* HTTP handlers *)

\* GET /players
get_players ==
    /\ ops < MaxOps
    /\ Respond([op |-> "list"], 200, "",
               [i \in 1 .. Len(players) |-> to_dict(players[i])])
    /\ UNCHANGED <<players, nextOid, everHeld>>

\* POST /players.  backend/main.py:96-110 is the same handler without the
\* `value < 0` test, backend/vercel_app.py:122-140 the same handler with it.
create_player(name, position, club, value) ==
    /\ ops < MaxOps
    /\ LET req == [op |-> "create", name |-> name, position |-> position,
                   club |-> club, value |-> value]
           new_player == Player(nextOid, name, position, club, value)
       IN  IF ~PlayerBase(name, position, club, value)
           THEN /\ Respond(req, 422, "Unprocessable Entity", <<>>)
                /\ UNCHANGED <<players, nextOid, everHeld>>
           ELSE IF variant # "main" /\ value < 0
           THEN /\ Respond(req, 400, "Player value cannot be negative", <<>>)
                /\ UNCHANGED <<players, nextOid, everHeld>>
           ELSE IF new_player.err # ""
           THEN /\ Respond(req, 400, new_player.err, <<>>)
                /\ UNCHANGED <<players, nextOid, everHeld>>
           ELSE /\ SetPlayers(append(players, new_player.p))
                /\ nextOid' = nextOid + 1
                /\ Respond(req, 201, "", <<to_dict(new_player.p)>>)

\* The Player class the running deployment defines
Player_setNewClub(p, newClub, transferMoney) ==
    IF variant = "app"
    THEN setNewClub(p, newClub, transferMoney)
    ELSE main_setNewClub(p, newClub, transferMoney)

\* PUT /players/{player_id}/transfer (the same handler in
\* backend/main.py:112-123 and backend/vercel_app.py:142-153)
transfer_player(player_id, new_club, transfer_money) ==
    /\ ops < MaxOps
    /\ LET req == [op |-> "transfer", player_id |-> player_id,
                   new_club |-> new_club, transfer_money |-> transfer_money]
       IN  IF ~InRange(player_id, players)
           THEN /\ Respond(req, 404, "Player not found", <<>>)
                /\ UNCHANGED <<players, nextOid, everHeld>>
           ELSE LET r == Player_setNewClub(At(players, player_id),
                                           new_club, transfer_money)
                IN  /\ SetPlayers(Store(players, player_id, r.p))
                    /\ UNCHANGED nextOid
                    /\ IF r.err # ""
                       THEN Respond(req, 400, r.err, <<>>)
                       ELSE Respond(req, 200, "", <<to_dict(r.p)>>)

\* PUT /players/{player_id}/value, a route only backend/app defines
update_player_value(player_id, amount) ==
    /\ ops < MaxOps
    /\ variant = "app"
    /\ LET req == [op |-> "value", player_id |-> player_id, amount |-> amount]
       IN  IF ~InRange(player_id, players)
           THEN /\ Respond(req, 404, "Player not found", <<>>)
                /\ UNCHANGED <<players, nextOid, everHeld>>
           ELSE LET r == inOrDecrisePlayerValue(At(players, player_id), amount)
                IN  /\ SetPlayers(Store(players, player_id, r.p))
                    /\ UNCHANGED nextOid
                    /\ IF r.err # ""
                       THEN Respond(req, 400, r.err, <<>>)
                       ELSE Respond(req, 200, "", <<to_dict(r.p)>>)

\* DELETE /players/{player_id} (the same handler in backend/main.py:125-134
\* and backend/vercel_app.py:155-164)
delete_player(player_id) ==
    /\ ops < MaxOps
    /\ LET req == [op |-> "delete", player_id |-> player_id]
       IN  IF ~InRange(player_id, players)
           THEN /\ Respond(req, 404, "Player not found", <<>>)
                /\ UNCHANGED <<players, nextOid, everHeld>>
           ELSE LET r == pop(players, player_id)
                IN  /\ SetPlayers(r.list)
                    /\ UNCHANGED nextOid
                    /\ Respond(req, 200, "", <<to_dict(r.item)>>)

Next ==
    \/ get_players
    \/ \E name \in NameInputs, position \in PositionInputs,
          club \in ClubInputs, value \in ValueInputs :
            create_player(name, position, club, value)
    \/ \E player_id \in IdInputs, new_club \in ClubInputs,
          transfer_money \in FeeInputs :
            transfer_player(player_id, new_club, transfer_money)
    \/ \E player_id \in IdInputs, amount \in AmountInputs :
            update_player_value(player_id, amount)
    \/ \E player_id \in IdInputs : delete_player(player_id)

Spec == Init /\ [][Next]_vars

----------------------------------------------------------------------------
(* Simultaneous requests *)

(* Every handler is an `async def` coroutine that the server's event loop     *)
(* runs.  The event loop switches to another coroutine only where the running *)
(* one awaits.  A request in flight is "pending" until the loop starts its    *)
(* handler, "checked" between the bounds check and the try block, and "done"  *)
(* once the handler has returned or raised.                                   *)

\* The positions of a handler body at which it awaits: backend/app/main.py
\* has no await expression between line 56 and line 91 (nor have the handlers
\* of backend/main.py and backend/vercel_app.py).  The mutant awaits between
\* the bounds check and the try block.
AwaitPoints_after_check == {"checked"}

AwaitPoints == {}

\* Identity of players[i], -1 where i is no index of the list
OidAt(list, i) == IF i \in Indices(list) THEN At(list, i).oid ELSE -1

\* Indices, amounts, clubs and names the simultaneous requests use
ConcIds == {0, 3, 4}

ConcAmounts == {-5}

ConcClubs == {<<" ", "\t">>, <<" ", "Real", " ", "Madrid", "\t">>}

ConcFees == {200}

ConcNames == {<<" ">>, <<"\t", "Lamine", " ", "Yamal", " ">>}

\* A request arrives and its handler coroutine is scheduled.
Receive(c, req) ==
    /\ tasks[c].pc = "idle"
    /\ req.op = "value" => variant = "app"
    /\ tasks' = [tasks EXCEPT ![c] =
                    [pc |-> "pending", req |-> req,
                     aimed |-> IF req.op = "create" THEN -1
                               ELSE OidAt(players, req.player_id),
                     seen |-> -1, acted |-> -1]]
    /\ UNCHANGED <<variant, players, request, response, nextOid, everHeld,
                   ops, running>>

\* The handler of client c returns or raises HTTPException.
Finish(c, acted, status, detail, body) ==
    /\ tasks' = [tasks EXCEPT ![c].pc = "done", ![c].acted = acted]
    /\ running' = 0
    /\ request' = tasks[c].req
    /\ response' = [status |-> status, detail |-> detail, body |-> body]
    /\ ops' = ops + 1
    /\ UNCHANGED variant

\* The event loop starts the handler of a pending request.  create_player
\* runs to its end; a by-index handler runs its bounds check and, the check
\* passed, goes on to its try block, giving up the loop only at an await.
Begin(c) ==
    /\ running = 0
    /\ tasks[c].pc = "pending"
    /\ LET req == tasks[c].req IN
       IF req.op = "create"
       THEN LET new_player == Player(nextOid, req.name, req.position,
                                     req.club, req.value)
            IN  IF ~PlayerBase(req.name, req.position, req.club, req.value)
                THEN /\ Finish(c, -1, 422, "Unprocessable Entity", <<>>)
                     /\ UNCHANGED <<players, nextOid, everHeld>>
                ELSE IF variant # "main" /\ req.value < 0
                THEN /\ Finish(c, -1, 400, "Player value cannot be negative",
                               <<>>)
                     /\ UNCHANGED <<players, nextOid, everHeld>>
                ELSE IF new_player.err # ""
                THEN /\ Finish(c, -1, 400, new_player.err, <<>>)
                     /\ UNCHANGED <<players, nextOid, everHeld>>
                ELSE /\ SetPlayers(append(players, new_player.p))
                     /\ nextOid' = nextOid + 1
                     /\ Finish(c, nextOid, 201, "", <<to_dict(new_player.p)>>)
       ELSE IF ~InRange(req.player_id, players)
       THEN /\ Finish(c, -1, 404, "Player not found", <<>>)
            /\ UNCHANGED <<players, nextOid, everHeld>>
       ELSE /\ tasks' = [tasks EXCEPT
                            ![c].pc = "checked",
                            ![c].seen = OidAt(players, req.player_id)]
            /\ running' = IF "checked" \in AwaitPoints THEN 0 ELSE c
            /\ UNCHANGED <<variant, players, request, response, nextOid,
                           everHeld, ops>>

\* The try block of a by-index handler, on the list as it is now.  An index
\* that is no index of the list raises IndexError, which `except Exception`
\* turns into a 500.
Resume(c) ==
    /\ tasks[c].pc = "checked"
    /\ running \in {0, c}
    /\ UNCHANGED nextOid
    /\ LET req == tasks[c].req
           player_id == req.player_id
       IN  IF ~(player_id \in Indices(players))
           THEN /\ Finish(c, -1, 500, "An unexpected error occurred", <<>>)
                /\ UNCHANGED <<players, everHeld>>
           ELSE IF req.op = "delete"
           THEN LET r == pop(players, player_id)
                IN  /\ SetPlayers(r.list)
                    /\ Finish(c, r.item.oid, 200, "", <<to_dict(r.item)>>)
           ELSE LET p == At(players, player_id)
                    r == IF req.op = "transfer"
                         THEN Player_setNewClub(p, req.new_club,
                                                req.transfer_money)
                         ELSE inOrDecrisePlayerValue(p, req.amount)
                IN  /\ SetPlayers(Store(players, player_id, r.p))
                    /\ IF r.err # ""
                       THEN Finish(c, p.oid, 400, r.err, <<>>)
                       ELSE Finish(c, p.oid, 200, "", <<to_dict(r.p)>>)

NextConc ==
    \/ \E c \in Clients, player_id \in ConcIds :
            Receive(c, [op |-> "delete", player_id |-> player_id])
    \/ \E c \in Clients, player_id \in ConcIds, amount \in ConcAmounts :
            Receive(c, [op |-> "value", player_id |-> player_id,
                        amount |-> amount])
    \/ \E c \in Clients, player_id \in ConcIds, new_club \in ConcClubs,
          transfer_money \in ConcFees :
            Receive(c, [op |-> "transfer", player_id |-> player_id,
                        new_club |-> new_club,
                        transfer_money |-> transfer_money])
    \/ \E c \in Clients, name \in ConcNames :
            Receive(c, [op |-> "create", name |-> name, position |-> <<"GK">>,
                        club |-> <<"PSG">>, value |-> 100])
    \/ \E c \in Clients : Begin(c)
    \/ \E c \in Clients : Resume(c)

\* The event loop runs every scheduled coroutine, and runs it to its end.
SpecConc ==
    /\ Init
    /\ [][NextConc]_vars
    /\ WF_vars(\E c \in Clients : Begin(c))
    /\ WF_vars(\E c \in Clients : Resume(c))

----------------------------------------------------------------------------
(* Properties *)

\* Blank: empty, or whitespace only
Blank(s) == strip(s) = <<>>

\* The step handled a request of kind `op` (every step handles exactly one)
Handled(op) == ops' = ops + 1 /\ request'.op = op

\* `i` is an index of the list: 0 <= i < len(list)
IsIndex(i, list) == i \in Indices(list)

\* C1: in every reachable state every player of the roster has value >= 0.
C1_ValueNeverNegative ==
    \A j \in 1 .. Len(players) : players[j].value >= 0

\* C2: a Create with value < 0, a blank name or club, or a position outside
\* {GK, DF, CM, FW} fails with a validation error (400, or 422 from the request
\* model) and leaves the roster exactly as it was.
C2_InvalidCreateRejected ==
    [][ ( /\ Handled("create")
          /\ \/ request'.value < 0
             \/ Blank(request'.name)
             \/ Blank(request'.club)
             \/ request'.position \notin VALID_POSITIONS )
        => ( /\ response'.status \in {400, 422}
             /\ players' = players ) ]_vars

\* C3: in every reachable state every player has a position in
\* {GK, DF, CM, FW} and a name and a club that are not blank.
C3_FieldsWellFormed ==
    \A j \in 1 .. Len(players) :
        /\ players[j].position \in VALID_POSITIONS
        /\ ~Blank(players[j].name)
        /\ ~Blank(players[j].club)

\* C4: AdjustValue, Transfer or Delete with an index < 0 or >= the roster
\* length answers 404 and leaves the roster unchanged: same length, same
\* order, every field of every player the same.
C4_OutOfRangeNotFound ==
    [][ ( /\ \/ Handled("value") \/ Handled("transfer") \/ Handled("delete")
          /\ ~IsIndex(request'.player_id, players) )
        => ( /\ response'.status = 404
             /\ players' = players ) ]_vars

C4_Witness ==
    /\ request.op \in {"value", "transfer", "delete"}
    /\ request.player_id \in {-1, Len(InitialPlayers)}
    /\ response.status = 404
    /\ response.detail = "Player not found"
    /\ players = InitialPlayers

\* C5: after a successful Create the roster is the previous roster with the
\* new player appended: the length grows by one, every earlier element keeps
\* its index and fields, and the new player, which the response describes, is
\* the last element; List returns the roster in that order.
C5_CreateAppends ==
    [][ /\ ( Handled("create") /\ response'.status = 201 )
           => ( /\ Len(players') = Len(players) + 1
                /\ \A j \in 1 .. Len(players) : players'[j] = players[j]
                /\ players'[Len(players')].oid = nextOid
                /\ to_dict(players'[Len(players')]) = response'.body[1] )
        /\ Handled("list")
           => ( /\ Len(response'.body) = Len(players)
                /\ \A j \in 1 .. Len(players) :
                       response'.body[j] = to_dict(players[j]) ) ]_vars

C5_Witness ==
    /\ request.op = "create"
    /\ response.status = 201
    /\ Len(players) = Len(InitialPlayers) + 1
    /\ SubSeq(players, 1, Len(InitialPlayers)) = InitialPlayers
    /\ players[Len(players)].name = <<"Lamine", " ", "Yamal">>
    /\ response.body = <<to_dict(players[Len(players)])>>

\* C6 (as stated): the index a newly created player receives was never held
\* by any earlier player of the roster, players since deleted included.
C6_IndexNeverReused ==
    [][ ( Handled("create") /\ response'.status = 201 )
        => \A j \in 1 .. Len(players') :
               players'[j].oid = nextOid => (j - 1) \notin everHeld ]_vars

\* C6 (amended): the index a newly created player receives is the length of
\* the roster before the call, which no player then in the roster holds; an
\* index freed by an earlier Delete is given out again.
C6_NewIndexIsOldLength ==
    [][ ( Handled("create") /\ response'.status = 201 )
        => /\ \E j \in 1 .. Len(players') : players'[j].oid = nextOid
           /\ \A j \in 1 .. Len(players') :
                  players'[j].oid = nextOid
                      => ( /\ j - 1 = Len(players)
                           /\ ~IsIndex(j - 1, players) ) ]_vars

C6_Witness ==
    /\ request.op = "create"
    /\ response.status = 201
    /\ Len(players) = Len(InitialPlayers)
    /\ players[Len(players)].oid = Len(InitialPlayers)
    /\ (Len(players) - 1) \in everHeld

\* C7: after a successful Delete(i) the roster is one shorter, the removed
\* element is no longer in it, the elements before i keep their index, every
\* element that was at an index j > i is at j - 1, and the response is the
\* removed player.
C7_DeleteShiftsLeft ==
    [][ ( Handled("delete") /\ response'.status = 200 )
        => LET i == request'.player_id + 1 IN
           /\ Len(players') = Len(players) - 1
           /\ \A j \in 1 .. Len(players') : players'[j].oid # players[i].oid
           /\ \A j \in 1 .. (i - 1) : players'[j] = players[j]
           /\ \A j \in (i + 1) .. Len(players) : players'[j - 1] = players[j]
           /\ response'.body = <<to_dict(players[i])>> ]_vars

C7_Witness ==
    /\ request.op = "delete"
    /\ request.player_id = 1
    /\ response.status = 200
    /\ response.body = <<to_dict(InitialPlayers[2])>>
    /\ players = <<InitialPlayers[1], InitialPlayers[3],
                   InitialPlayers[4], InitialPlayers[5]>>

\* C8: for every in-range index i and every delta, AdjustValue(i, delta)
\* succeeds and sets the value to old value - |delta| when delta < 0 and to
\* old value + delta when delta >= 0: always old value + delta, with no floor
\* at zero.
C8_AdjustAddsDelta ==
    [][ ( Handled("value") /\ IsIndex(request'.player_id, players) )
        => LET i == request'.player_id + 1
               delta == request'.amount
           IN  /\ response'.status = 200
               /\ delta < 0 => players'[i].value = players[i].value - abs(delta)
               /\ delta >= 0 => players'[i].value = players[i].value + delta
               /\ players'[i].value = players[i].value + delta
               /\ response'.body[1].value = players'[i].value ]_vars

C8_Witness ==
    /\ request.op = "value"
    /\ request.amount = -5
    /\ response.status = 200
    /\ response.body[1].value = 95
    /\ players[request.player_id + 1].value = 95

\* C9: for every in-range index i, non-blank newClub and transferFee >= 0,
\* Transfer succeeds and leaves player i with club = trimmed newClub and
\* value = transferFee, whichever deployment runs.
C9_TransferSetsClubAndValue ==
    [][ ( /\ Handled("transfer")
          /\ IsIndex(request'.player_id, players)
          /\ ~Blank(request'.new_club)
          /\ request'.transfer_money >= 0 )
        => LET i == request'.player_id + 1 IN
           /\ response'.status = 200
           /\ players'[i].club = strip(request'.new_club)
           /\ players'[i].value = request'.transfer_money ]_vars

C9_Witness ==
    /\ variant = "app"
    /\ request.op = "transfer"
    /\ request.player_id = 0
    /\ request.transfer_money = 200
    /\ response.status = 200
    /\ players[1].club = <<"Real", " ", "Madrid">>
    /\ players[1].value = 200

\* C10: Transfer on an in-range index with transferFee < 0 or a blank
\* newClub answers 400 and updates nothing: the player's club and value are
\* what they were before the call.
C10_InvalidTransferNoPartialUpdate ==
    [][ ( /\ Handled("transfer")
          /\ IsIndex(request'.player_id, players)
          /\ \/ request'.transfer_money < 0
             \/ Blank(request'.new_club) )
        => LET i == request'.player_id + 1 IN
           /\ response'.status = 400
           /\ players'[i].club = players[i].club
           /\ players'[i].value = players[i].value ]_vars

C10_Witness ==
    /\ request.op = "transfer"
    /\ request.player_id = 2
    /\ ~Blank(request.new_club)
    /\ request.transfer_money < 0
    /\ response.status = 400
    /\ players = InitialPlayers

\* Some finished request passed its bounds check on one player and then
\* acted on another player, or on an index that was no longer in range.
Raced ==
    \E c \in Clients :
        /\ tasks[c].pc = "done"
        /\ tasks[c].seen # -1
        /\ tasks[c].acted # tasks[c].seen

\* Two requests are in flight together, neither handled yet: a Delete, and a
\* by-index request on a higher index, which the Delete shifts.
InFlightTogether ==
    \E c, d \in Clients :
        /\ c # d
        /\ tasks[c].pc = "pending" /\ tasks[d].pc = "pending"
        /\ tasks[c].req.op = "delete"
        /\ tasks[d].req.op \in {"value", "transfer", "delete"}
        /\ tasks[c].req.player_id < tasks[d].req.player_id

C12_UpdateFrame ==
    [][ ( Handled("value") \/ Handled("transfer") )
        => LET i == request'.player_id + 1 IN
           /\ Len(players') = Len(players)
           /\ \A j \in 1 .. Len(players) :
                  /\ players'[j].oid = players[j].oid
                  /\ players'[j].name = players[j].name
                  /\ players'[j].position = players[j].position
                  /\ j # i => to_dict(players'[j]) = to_dict(players[j])
                  /\ request'.op = "value"
                        => players'[j].club = players[j].club ]_vars

C12_Witness ==
    /\ request.op = "transfer"
    /\ request.player_id = 2
    /\ response.status = 200
    /\ Len(players) = Len(InitialPlayers)
    /\ \A j \in {1, 2, 4, 5} : players[j] = InitialPlayers[j]
    /\ players[3].oid = InitialPlayers[3].oid
    /\ players[3].name = InitialPlayers[3].name
    /\ players[3].position = InitialPlayers[3].position
    /\ players[3].club # InitialPlayers[3].club
    /\ players[3].value # InitialPlayers[3].value

====
